---- MODULE Spec2Model ----
(***************************************************************************)
(* Model of package opt (hermannm.dev/opt): Option[T], a container that    *)
(* either has a value or is empty.  The type parameter is instantiated     *)
(* with T = string, as in the package's tests.  A string is a sequence of  *)
(* one-character strings; a []byte of JSON text is one as well.            *)
(*                                                                         *)
(* The state is that of a caller holding one Option (`option`), a variable *)
(* v of type T and a pointer q obtained from ToPointer.  Memory reachable  *)
(* through pointers is `heap`; FieldAddr stands for &option.Value, the     *)
(* address of the option's own storage.  `call` is the last call made and  *)
(* its arguments, `ret` what it returned, and `before` the option as it    *)
(* was when that call was made.                                            *)
(***************************************************************************)
EXTENDS Integers, Sequences, FiniteSets, TLC

VARIABLES option, heap, q, call, ret, before

vars == <<option, heap, q, call, ret, before>>

(* ------------------------------ bounds ---------------------------------- *)

\* Longest string held in a T.
MaxLen == 1

(* ------------------------------ values ---------------------------------- *)

\* Characters a T may hold: one plain, one that JSON must escape.
Alphabet == {"a", "\""}

\* T = string, up to the bound.
T == UNION {[1..n -> Alphabet] : n \in 0..MaxLen}

\* The zero value of T (the empty string).
Zero == <<>>

\* Pointers (*T): nil, &option.Value, &v (the caller's variable) and the
\* address of the copy of the receiver that ToPointer lets escape.
Nil == "nil"
FieldAddr == "&option.Value"
VarAddr == "&v"
CopyAddr == "&copy"
HeapAddrs == {VarAddr, CopyAddr}

\* sql.Null[T]
SQLNull == [Valid : BOOLEAN, V : T]

\* The JSON literal null: []byte{'n', 'u', 'l', 'l'}.
Null == <<"n", "u", "l", "l">>

\* The string "<empty>".
EmptyString == <<"<", "e", "m", "p", "t", "y", ">">>

(* ---------------------- encoding/json for T = string -------------------- *)

RECURSIVE escape(_)
\* The body of a JSON string literal: '"' and '\' are escaped by a backslash.
escape(s) ==
    IF s = <<>> THEN <<>>
    ELSE (IF Head(s) \in {"\"", "\\"} THEN <<"\\", Head(s)>> ELSE <<Head(s)>>)
         \o escape(Tail(s))

\* json.Marshal(value) for a string: the quoted, escaped literal.  It never
\* fails for a string.
jsonMarshal(value) == [bytes |-> <<"\"">> \o escape(value) \o <<"\"">>, err |-> FALSE]

RECURSIVE trimLeft(_)
trimLeft(s) == IF s # <<>> /\ Head(s) = " " THEN trimLeft(Tail(s)) ELSE s

RECURSIVE trimRight(_)
trimRight(s) ==
    IF s # <<>> /\ s[Len(s)] = " " THEN trimRight(SubSeq(s, 1, Len(s) - 1)) ELSE s

\* JSON text with the insignificant whitespace around the value removed.
trimSpace(s) == trimRight(trimLeft(s))

RECURSIVE unescape(_)
\* Decodes the body of a string literal; ok is FALSE when the body holds an
\* unescaped quote, a dangling backslash or an escape the model has no
\* character for.
unescape(s) ==
    IF s = <<>> THEN [ok |-> TRUE, out |-> <<>>]
    ELSE IF Head(s) = "\\"
    THEN IF Len(s) >= 2 /\ s[2] \in {"\"", "\\"}
         THEN LET r == unescape(Tail(Tail(s)))
              IN  [ok |-> r.ok, out |-> <<s[2]>> \o r.out]
         ELSE [ok |-> FALSE, out |-> <<>>]
    ELSE IF Head(s) = "\""
    THEN [ok |-> FALSE, out |-> <<>>]
    ELSE LET r == unescape(Tail(s))
         IN  [ok |-> r.ok, out |-> <<Head(s)>> \o r.out]

\* json.Unmarshal(data, &target) for a *string target holding `current`:
\* a syntax error or a value of another JSON type (a number) is an error and
\* leaves the target as it was; the literal null is accepted and leaves the target as it
\* was; a string literal is decoded into the target.
jsonUnmarshal(data, current) ==
    LET s == trimSpace(data)
        quoted == Len(s) >= 2 /\ s[1] = "\"" /\ s[Len(s)] = "\""
        body == IF quoted THEN unescape(SubSeq(s, 2, Len(s) - 1))
                ELSE [ok |-> FALSE, out |-> <<>>]
    IN  IF s = Null THEN [value |-> current, err |-> FALSE]
        ELSE IF quoted /\ body.ok THEN [value |-> body.out, err |-> FALSE]
        ELSE [value |-> current, err |-> TRUE]

\* fmt.Sprint(value) for a string is the string.
Sprint(value) == value

(* ------------------------------ package opt ----------------------------- *)

\* Option[T]{}: the zero value of the struct.
ZeroOption == [hasValue |-> FALSE, Value |-> Zero]

Value(value) == [hasValue |-> TRUE, Value |-> value]

Empty == [hasValue |-> FALSE, Value |-> Zero]

\* *pointer, in memory mem with the option o at FieldAddr.
Load(pointer, o, mem) == IF pointer = FieldAddr THEN o.Value ELSE mem[pointer]

\* FromPointer(pointer); deref is *pointer (unused when pointer is nil).
FromPointer(pointer, deref) ==
    IF pointer = Nil
    THEN [hasValue |-> FALSE, Value |-> Zero]
    ELSE [hasValue |-> TRUE, Value |-> deref]

HasValue(o) == o.hasValue

\* IsEmpty that looks at the value instead of the flag.
IsEmpty_ByValue(o) == o.Value = Zero

IsEmpty(o) == ~o.hasValue

Get(o) == [value |-> o.Value, ok |-> o.hasValue]

GetOrDefault(o, defaultValue) == IF o.hasValue THEN o.Value ELSE defaultValue

\* Put that forgets to set the flag.
Put_ValueOnly(o, value) == [o EXCEPT !.Value = value]

Put(o, value) == [hasValue |-> TRUE, Value |-> value]

\* Clear that resets the flag and leaves the value in place.
Clear_FlagOnly(o) == [o EXCEPT !.hasValue = FALSE]

Clear(o) == [hasValue |-> FALSE, Value |-> Zero]

\* ToPointer with a pointer receiver: the address of the option's own field.
ToPointer_Aliasing(o) ==
    IF o.hasValue
    THEN [pointer |-> FieldAddr, copy |-> o.Value]
    ELSE [pointer |-> Nil, copy |-> o.Value]

\* ToPointer with the branches swapped.
ToPointer_Inverted(o) ==
    IF o.hasValue
    THEN [pointer |-> Nil, copy |-> o.Value]
    ELSE [pointer |-> CopyAddr, copy |-> o.Value]

\* ToPointer has a value receiver: &option.Value is the address of the copy
\* of the receiver, which holds `copy`.
ToPointer(o) ==
    IF o.hasValue
    THEN [pointer |-> CopyAddr, copy |-> o.Value]
    ELSE [pointer |-> Nil, copy |-> o.Value]

\* FromSQL that copies both fields whatever Valid says.
FromSQL_KeepsV(sql) == [hasValue |-> sql.Valid, Value |-> sql.V]

FromSQL(sql) ==
    IF sql.Valid
    THEN [hasValue |-> TRUE, Value |-> sql.V]
    ELSE [hasValue |-> FALSE, Value |-> Zero]

ToSQL(o) == [Valid |-> o.hasValue, V |-> o.Value]

String(o) == IF o.hasValue THEN Sprint(o.Value) ELSE EmptyString

MarshalJSON(o) ==
    IF o.hasValue THEN jsonMarshal(o.Value) ELSE [bytes |-> Null, err |-> FALSE]

\* UnmarshalJSON on the option o: the option afterwards and the error.
UnmarshalJSON(o, jsonValue) ==
    LET isNull == /\ Len(jsonValue) = 4
                  /\ jsonValue[1] = "n"
                  /\ jsonValue[2] = "u"
                  /\ jsonValue[3] = "l"
                  /\ jsonValue[4] = "l"
    IN  IF isNull
        THEN [option |-> [o EXCEPT !.hasValue = FALSE], err |-> FALSE]
        ELSE LET d == jsonUnmarshal(jsonValue, o.Value)
             IN  [option |-> [hasValue |-> TRUE, Value |-> d.value], err |-> d.err]

(* ------------------------------ the caller ------------------------------ *)

\* The byte sequences handed to UnmarshalJSON: every encoding of a T, the null
\* literal, null with a leading space, and text that does not decode into a
\* string (truncated literal, a number, an unterminated string).
JsonInputs ==
    {jsonMarshal(v).bytes : v \in T}
    \cup {Null, <<" ">> \o Null, <<"n", "u", "l">>, <<"1">>, <<"\"", "a">>}

NoCall == [op |-> "Zero", value |-> Zero, pointer |-> Nil,
           sql |-> [Valid |-> FALSE, V |-> Zero], jsonValue |-> <<>>]

\* What the last call returned; fresh is the local option of CallUnmarshalJSONFresh.
NoRet == [bool |-> FALSE, value |-> Zero, sql |-> [Valid |-> FALSE, V |-> Zero],
          bytes |-> <<>>, err |-> FALSE, fresh |-> ZeroOption]

\* var option Option[T]; var v T; var q *T
Init ==
    /\ option = ZeroOption
    /\ heap = [a \in HeapAddrs |-> Zero]
    /\ q = Nil
    /\ call = NoCall
    /\ ret = NoRet
    /\ before = ZeroOption

\* The constructors: the caller assigns the option they return to `option`.
CallValue(value) ==
    /\ before' = option
    /\ option' = Value(value)
    /\ call' = [NoCall EXCEPT !.op = "Value", !.value = value]
    /\ ret' = NoRet
    /\ UNCHANGED <<heap, q>>

CallEmpty ==
    /\ before' = option
    /\ option' = Empty
    /\ call' = [NoCall EXCEPT !.op = "Empty"]
    /\ ret' = NoRet
    /\ UNCHANGED <<heap, q>>

CallFromPointer(pointer) ==
    /\ before' = option
    /\ option' = FromPointer(pointer,
                             IF pointer = Nil THEN Zero ELSE Load(pointer, option, heap))
    /\ call' = [NoCall EXCEPT !.op = "FromPointer", !.pointer = pointer]
    /\ ret' = NoRet
    /\ UNCHANGED <<heap, q>>

CallFromSQL(sql) ==
    /\ before' = option
    /\ option' = FromSQL(sql)
    /\ call' = [NoCall EXCEPT !.op = "FromSQL", !.sql = sql]
    /\ ret' = NoRet
    /\ UNCHANGED <<heap, q>>

\* The methods with a value receiver: they work on a copy of the option.
CallHasValue ==
    /\ before' = option
    /\ call' = [NoCall EXCEPT !.op = "HasValue"]
    /\ ret' = [NoRet EXCEPT !.bool = HasValue(option)]
    /\ UNCHANGED <<option, heap, q>>

CallIsEmpty ==
    /\ before' = option
    /\ call' = [NoCall EXCEPT !.op = "IsEmpty"]
    /\ ret' = [NoRet EXCEPT !.bool = IsEmpty(option)]
    /\ UNCHANGED <<option, heap, q>>

CallGet ==
    /\ before' = option
    /\ call' = [NoCall EXCEPT !.op = "Get"]
    /\ ret' = [NoRet EXCEPT !.value = Get(option).value, !.bool = Get(option).ok]
    /\ UNCHANGED <<option, heap, q>>

\* GetOrDefault with a pointer receiver that stores the default it returns.
CallGetOrDefault_Inserts(defaultValue) ==
    /\ before' = option
    /\ option' = IF option.hasValue THEN option ELSE Value(defaultValue)
    /\ call' = [NoCall EXCEPT !.op = "GetOrDefault", !.value = defaultValue]
    /\ ret' = [NoRet EXCEPT !.value = GetOrDefault(option, defaultValue)]
    /\ UNCHANGED <<heap, q>>

CallGetOrDefault(defaultValue) ==
    /\ before' = option
    /\ call' = [NoCall EXCEPT !.op = "GetOrDefault", !.value = defaultValue]
    /\ ret' = [NoRet EXCEPT !.value = GetOrDefault(option, defaultValue)]
    /\ UNCHANGED <<option, heap, q>>

\* q = option.ToPointer()
CallToPointer ==
    /\ before' = option
    /\ call' = [NoCall EXCEPT !.op = "ToPointer"]
    /\ ret' = NoRet
    /\ q' = ToPointer(option).pointer
    /\ heap' = IF ToPointer(option).pointer = CopyAddr
               THEN [heap EXCEPT ![CopyAddr] = ToPointer(option).copy]
               ELSE heap
    /\ UNCHANGED option

CallToSQL ==
    /\ before' = option
    /\ call' = [NoCall EXCEPT !.op = "ToSQL"]
    /\ ret' = [NoRet EXCEPT !.sql = ToSQL(option)]
    /\ UNCHANGED <<option, heap, q>>

CallString ==
    /\ before' = option
    /\ call' = [NoCall EXCEPT !.op = "String"]
    /\ ret' = [NoRet EXCEPT !.bytes = String(option)]
    /\ UNCHANGED <<option, heap, q>>

CallMarshalJSON ==
    /\ before' = option
    /\ call' = [NoCall EXCEPT !.op = "MarshalJSON"]
    /\ ret' = [NoRet EXCEPT !.bytes = MarshalJSON(option).bytes,
                            !.err = MarshalJSON(option).err]
    /\ UNCHANGED <<option, heap, q>>

\* The methods with a pointer receiver, called on `option`.
CallPut(value) ==
    /\ before' = option
    /\ option' = Put(option, value)
    /\ call' = [NoCall EXCEPT !.op = "Put", !.value = value]
    /\ ret' = NoRet
    /\ UNCHANGED <<heap, q>>

CallClear ==
    /\ before' = option
    /\ option' = Clear(option)
    /\ call' = [NoCall EXCEPT !.op = "Clear"]
    /\ ret' = NoRet
    /\ UNCHANGED <<heap, q>>

CallUnmarshalJSON(jsonValue) ==
    /\ before' = option
    /\ option' = UnmarshalJSON(option, jsonValue).option
    /\ call' = [NoCall EXCEPT !.op = "UnmarshalJSON", !.jsonValue = jsonValue]
    /\ ret' = [NoRet EXCEPT !.err = UnmarshalJSON(option, jsonValue).err]
    /\ UNCHANGED <<heap, q>>

\* var fresh Option[T]; err := fresh.UnmarshalJSON(jsonValue)
CallUnmarshalJSONFresh(jsonValue) ==
    /\ before' = option
    /\ call' = [NoCall EXCEPT !.op = "UnmarshalJSONFresh", !.jsonValue = jsonValue]
    /\ ret' = [NoRet EXCEPT !.fresh = UnmarshalJSON(ZeroOption, jsonValue).option,
                            !.err = UnmarshalJSON(ZeroOption, jsonValue).err]
    /\ UNCHANGED <<option, heap, q>>

\* *pointer = value, by the caller, through &v or q.
Store(pointer, value) ==
    /\ pointer # Nil
    /\ before' = option
    /\ call' = [NoCall EXCEPT !.op = "Store", !.pointer = pointer, !.value = value]
    /\ ret' = NoRet
    /\ IF pointer = FieldAddr
       THEN option' = [option EXCEPT !.Value = value] /\ heap' = heap
       ELSE heap' = [heap EXCEPT ![pointer] = value] /\ option' = option
    /\ UNCHANGED q

Next ==
    \/ \E value \in T : CallValue(value)
    \/ CallEmpty
    \/ \E pointer \in {Nil, VarAddr, q} : CallFromPointer(pointer)
    \/ \E sql \in SQLNull : CallFromSQL(sql)
    \/ CallHasValue
    \/ CallIsEmpty
    \/ CallGet
    \/ \E defaultValue \in T : CallGetOrDefault(defaultValue)
    \/ CallToPointer
    \/ CallToSQL
    \/ CallString
    \/ CallMarshalJSON
    \/ \E value \in T : CallPut(value)
    \/ CallClear
    \/ \E jsonValue \in JsonInputs : CallUnmarshalJSON(jsonValue)
    \/ \E jsonValue \in JsonInputs : CallUnmarshalJSONFresh(jsonValue)
    \/ \E pointer \in {VarAddr, q}, value \in T : Store(pointer, value)

Spec == Init /\ [][Next]_vars

(* ------------------------------ properties ------------------------------ *)

Constructors == {"Zero", "Value", "Empty", "FromPointer", "FromSQL"}

Observers == {"HasValue", "IsEmpty", "Get", "GetOrDefault", "ToPointer", "ToSQL",
              "String", "MarshalJSON"}

\* C1: in every reachable state, an empty option (hasValue = FALSE) holds the
\* zero value of T, so that Get() returns (zero, false).
C1_EmptyHoldsZero ==
    ~option.hasValue => /\ option.Value = Zero
                        /\ Get(option) = [value |-> Zero, ok |-> FALSE]

\* C2: an UnmarshalJSON that returns an error leaves the option exactly as it
\* was before the call.
C2_FailedUnmarshalKeepsOption ==
    (call.op = "UnmarshalJSON" /\ ret.err) => option = before

\* C3 as stated: every operation other than Put and Clear (the observers and
\* UnmarshalJSON) leaves the option's (hasValue, Value) pair unchanged.
C3_OnlyPutAndClearChange ==
    call.op \in Observers \cup {"UnmarshalJSON"} => option = before

\* C3 as amended: after construction only Put, Clear and UnmarshalJSON change
\* the option's (hasValue, Value) pair; every other step (the observers, an
\* UnmarshalJSON on another option, a store through a pointer) leaves it
\* unchanged.
C3_OnlyPutClearUnmarshalChange ==
    /\ call.op \in Observers => option = before
    /\ option # before => call.op \in Constructors \cup {"Put", "Clear", "UnmarshalJSON"}

\* A GetOrDefault on an empty option with a non-zero default.
C3_Witness ==
    /\ call.op = "GetOrDefault"
    /\ ~before.hasValue
    /\ call.value # Zero
    /\ ret.value = call.value

\* C4: after Put(v), whatever the state before, the option is present and
\* holds v: HasValue() is true, IsEmpty() is false, Get() is (v, true); Put
\* can be called in every state.
C4_PutMakesPresent ==
    /\ call.op = "Put" =>
          /\ option = [hasValue |-> TRUE, Value |-> call.value]
          /\ HasValue(option)
          /\ ~IsEmpty(option)
          /\ Get(option) = [value |-> call.value, ok |-> TRUE]
    /\ \A value \in T : ENABLED CallPut(value)

\* A Put of the zero value over a present option holding another value.
C4_Witness ==
    /\ call.op = "Put"
    /\ before.hasValue
    /\ before.Value # Zero
    /\ call.value = Zero

\* C5: after Clear(), whatever the state before, the option equals Empty, and
\* a second Clear leaves it as the first did.
C5_ClearResets ==
    call.op = "Clear" =>
        /\ option = Empty
        /\ IsEmpty(option)
        /\ Clear(option) = option

\* A Clear of a present option holding a non-zero value.
C5_Witness ==
    /\ call.op = "Clear"
    /\ before.hasValue
    /\ before.Value # Zero

\* C6: MarshalJSON gives null for an empty option and the value's encoding
\* otherwise; unmarshaling what the option marshals to into a fresh option
\* succeeds and gives an option equal to it (for a value whose own encoding is
\* not null).
C6_JSONRoundTrip ==
    /\ call.op = "MarshalJSON" =>
          /\ ~ret.err
          /\ ret.bytes = IF option.hasValue THEN jsonMarshal(option.Value).bytes ELSE Null
    /\ ( /\ call.op = "UnmarshalJSONFresh"
         /\ jsonMarshal(option.Value).bytes # Null
         /\ call.jsonValue = MarshalJSON(option).bytes )
       => (~ret.err /\ ret.fresh = option)

\* C7: the zero value, Empty(), FromPointer(nil) and FromSQL of a record with
\* Valid = FALSE (whatever its V) are the same option: hasValue = FALSE and the
\* zero value of T, and IsEmpty() is true.
C7_EmptyConstructionsAgree ==
    ( \/ call.op \in {"Zero", "Empty"}
      \/ call.op = "FromPointer" /\ call.pointer = Nil
      \/ call.op = "FromSQL" /\ ~call.sql.Valid )
    => /\ option = [hasValue |-> FALSE, Value |-> Zero]
       /\ option = Empty
       /\ option = ZeroOption
       /\ IsEmpty(option)

\* A FromSQL of an invalid record whose V is not the zero value.
C7_Witness ==
    /\ call.op = "FromSQL"
    /\ ~call.sql.Valid
    /\ call.sql.V # Zero
    /\ before.hasValue

\* C8: the option's storage is not shared with a pointer: a store through &v
\* (after FromPointer(&v)) or through the pointer ToPointer returned leaves the
\* option unchanged, and a Put or Clear leaves what that pointer points to
\* unchanged.
C8_NoAliasing ==
    [][ /\ call'.op = "Store" => option' = option
        /\ (call'.op \in {"Put", "Clear"} /\ q # Nil) =>
              (q' = q /\ Load(q', option', heap') = Load(q, option, heap)) ]_vars

\* A store through the pointer from ToPointer, after which the option holds
\* another value than the pointer's target.
C8_Witness ==
    /\ call.op = "Store"
    /\ call.pointer = q
    /\ q # Nil
    /\ option.hasValue
    /\ Load(q, option, heap) # option.Value

\* C9: on a present option holding v, ToPointer is non-nil and points to v and
\* ToSQL is {Valid: true, V: v}; FromPointer of that pointer and FromSQL of
\* that record are Value(v).
C9_InteropRoundTrips ==
    /\ [](call.op = "ToPointer" /\ option.hasValue =>
             q # Nil /\ Load(q, option, heap) = option.Value)
    /\ [](call.op = "ToSQL" /\ option.hasValue =>
             ret.sql = [Valid |-> TRUE, V |-> option.Value])
    /\ [][ /\ ( /\ call.op = "ToPointer" /\ option.hasValue
                /\ call'.op = "FromPointer" /\ call'.pointer = q )
              => option' = Value(option.Value)
           /\ ( /\ call.op = "ToSQL" /\ option.hasValue
                /\ call'.op = "FromSQL" /\ call'.sql = ret.sql )
              => option' = Value(option.Value) ]_vars

\* A FromPointer of the pointer ToPointer returned, giving back the present
\* option with its non-zero value.
C9_Witness ==
    /\ call.op = "FromPointer"
    /\ call.pointer = q
    /\ q # Nil
    /\ before.hasValue
    /\ before.Value # Zero
    /\ option = before

\* C10: in every reachable state the observers agree with the hasValue flag:
\* HasValue() = ~IsEmpty() = Get's ok = (ToPointer() # nil) = ToSQL().Valid;
\* GetOrDefault(d) is the value when HasValue() and d otherwise; an empty
\* option's String() is "<empty>" and its MarshalJSON is null.
C10_ObserversAgree ==
    /\ HasValue(option) = option.hasValue
    /\ IsEmpty(option) = ~HasValue(option)
    /\ Get(option).ok = HasValue(option)
    /\ (ToPointer(option).pointer # Nil) = HasValue(option)
    /\ ToSQL(option).Valid = HasValue(option)
    /\ \A d \in T : GetOrDefault(option, d) = IF HasValue(option) THEN option.Value ELSE d
    /\ IsEmpty(option) => /\ String(option) = EmptyString
                          /\ MarshalJSON(option) = [bytes |-> Null, err |-> FALSE]
    /\ call.op = "HasValue" => ret.bool = option.hasValue
    /\ call.op = "IsEmpty" => ret.bool = ~option.hasValue
    /\ call.op = "Get" => ret.bool = option.hasValue
    /\ call.op = "ToPointer" => (q # Nil) = option.hasValue
    /\ call.op = "ToSQL" => ret.sql.Valid = option.hasValue
    /\ call.op = "GetOrDefault" =>
          ret.value = IF option.hasValue THEN option.Value ELSE call.value
    /\ (call.op = "String" /\ ~option.hasValue) => ret.bytes = EmptyString
    /\ (call.op = "MarshalJSON" /\ ~option.hasValue) => (ret.bytes = Null /\ ~ret.err)

\* An IsEmpty on a present option that holds the zero value.
C10_Witness ==
    /\ call.op = "IsEmpty"
    /\ option.hasValue
    /\ option.Value = Zero
    /\ ~ret.bool

====
